---------------------------- MODULE Spec2Model ----------------------------
(***************************************************************************)
(* A model of the GraphQOL analysis engine (src/app.py): named-type        *)
(* resolution, the audit orchestrator, the engine fingerprint classifier,  *)
(* the type-graph builder and the /api/analyze scan that combines them.    *)
(*                                                                         *)
(* Python strings are sequences of one-character strings, so that          *)
(* lower(), startswith() and the substring test `in` are computed and not  *)
(* assumed.  Python dicts are functions; d.get(k, default) is Get.         *)
(***************************************************************************)
EXTENDS Integers, Sequences, FiniteSets, TLC

VARIABLES
    pc,               \* position of the operation that is running
    type_obj,         \* _extract_named_type: the TypeRef chain passed in
    current,          \* _extract_named_type: index of `current` in the chain
    named,            \* _extract_named_type: the value returned
    iterations,       \* _extract_named_type: loop tests made so far
    graphql_cop_tests,\* the probe catalog, in its iteration order
    titleOf,          \* the title of the Finding each probe returns
    failing,          \* the probes that raise when invoked
    idx,              \* run_graphql_cop_audit: position of the for loop
    findings,         \* run_graphql_cop_audit: the local list `findings`
    invoked,          \* number of invocations of each probe in this call
    audit_findings,   \* what run_graphql_cop_audit returned
    raised,           \* whether a probe raised in this call
    introspection_result, \* analyze: the body execute_graphql returned
    schema_data,      \* the `data` mapping given to the classifier and builder
    response_headers, \* the response header mapping, as a list of items
    type_order,       \* iteration order of the set `type_names`
    engine,           \* what detect_engine returned
    injected_headers, \* response_headers with the literal injected
    engine_injected,  \* what detect_engine returned for injected_headers
    schema_artifacts, \* what build_schema_artifacts returned
    response          \* analyze: the HTTP answer

ntVars == <<type_obj, current, named, iterations>>
auditVars == <<graphql_cop_tests, titleOf, failing, idx, findings, invoked,
               audit_findings, raised>>
scanVars == <<introspection_result, schema_data, response_headers>>
engineVars == <<type_order, engine, injected_headers, engine_injected>>
vars == <<pc, ntVars, auditVars, scanVars, engineVars, schema_artifacts,
          response>>

(***************************************************************************)
(* Values                                                                  *)
(***************************************************************************)
\* Python's None: no one-character string, hence never a string of the model.
None == <<"None">>

\* A dict with no key, a list with no element, the empty string.
Empty == <<>>

\* bool(x) for the strings, lists and None of the model.
Truthy(x) == x # None /\ x # Empty

\* d.get(k, default)
Get(d, k, default) == IF k \in DOMAIN d THEN d[k] ELSE default

\* The letters and the underscore in code point order: A-Z, _, a-z.
Alphabet ==
    <<"A", "B", "C", "D", "E", "F", "G", "H", "I", "J", "K", "L", "M",
      "N", "O", "P", "Q", "R", "S", "T", "U", "V", "W", "X", "Y", "Z", "_",
      "a", "b", "c", "d", "e", "f", "g", "h", "i", "j", "k", "l", "m",
      "n", "o", "p", "q", "r", "s", "t", "u", "v", "w", "x", "y", "z">>

\* The rank of a character of Alphabet, which orders as its code point does.
CodePoint(c) == CHOOSE i \in 1..Len(Alphabet) : Alphabet[i] = c

IsUpper(c) == \E i \in 1..(Len(Alphabet) \div 2) : Alphabet[i] = c

\* str.lower()
Lower(s) ==
    [i \in 1..Len(s) |->
        IF IsUpper(s[i]) THEN Alphabet[CodePoint(s[i]) + (Len(Alphabet) \div 2) + 1]
        ELSE s[i]]

\* separator.join(parts)
RECURSIVE Join(_, _)
Join(parts, separator) ==
    IF parts = <<>> THEN <<>>
    ELSE IF Len(parts) = 1 THEN parts[1]
    ELSE parts[1] \o separator \o Join(Tail(parts), separator)

\* The elements of a list
Range(list) == {list[i] : i \in 1..Len(list)}

\* The orders in which a set can be iterated
Orders(set) ==
    {o \in [1..Cardinality(set) -> set] : \A x \in set : \E i \in DOMAIN o : o[i] = x}

\* str.startswith(prefix)
StartsWith(s, prefix) ==
    Len(s) >= Len(prefix) /\ SubSeq(s, 1, Len(prefix)) = prefix

\* sub in s
Contains(s, sub) ==
    \E i \in 0..(Len(s) - Len(sub)) : SubSeq(s, i + 1, i + Len(sub)) = sub

(***************************************************************************)
(* _extract_named_type                                                     *)
(*                                                                         *)
(* A TypeRef is a chain: element i + 1 is the `ofType` of element i, the   *)
(* last element has no `ofType`, and the empty chain is an absent TypeRef. *)
(***************************************************************************)
MaxDepth == 7

\* One test of `while current:` and one pass of the loop body.
NamedTypeStepSkipsNothing(chain, cur) ==
    IF cur > Len(chain)
    THEN [done |-> TRUE, result |-> None, current |-> cur]
    ELSE IF chain[cur].name # None
         THEN [done |-> TRUE, result |-> chain[cur].name, current |-> cur]
         ELSE [done |-> FALSE, result |-> None, current |-> cur + 1]

NamedTypeStep(chain, cur) ==
    IF cur > Len(chain)
    THEN [done |-> TRUE, result |-> None, current |-> cur]
    ELSE IF Truthy(chain[cur].name)
         THEN [done |-> TRUE, result |-> chain[cur].name, current |-> cur]
         ELSE [done |-> FALSE, result |-> None, current |-> cur + 1]

RECURSIVE NamedTypeLoop(_, _)
NamedTypeLoop(chain, cur) ==
    LET s == NamedTypeStep(chain, cur)
    IN  IF s.done THEN s.result ELSE NamedTypeLoop(chain, s.current)

_extract_named_type(chain) == NamedTypeLoop(chain, 1)


\* The names a TypeRef element of the model carries: JSON null, the empty
\* string and two type names.
RefNames == {None, Empty, <<"U">>, <<"P">>}

TypeRefElement(n) == [kind |-> IF Truthy(n) THEN "OBJECT" ELSE "LIST", name |-> n]

\* Chains of 0 to MaxDepth `ofType` wrappers, and the absent TypeRef.
TypeRefChains ==
    UNION {[1..n -> {TypeRefElement(x) : x \in RefNames}] : n \in 0..(MaxDepth + 1)}

NamedTypeIdle ==
    /\ type_obj = Empty
    /\ current = 1
    /\ named = None
    /\ iterations = 0

\* `while current:` holds and no name is found: current = current.get("ofType")
NamedTypeIterate ==
    /\ pc = "named_type"
    /\ ~NamedTypeStep(type_obj, current).done
    /\ current' = NamedTypeStep(type_obj, current).current
    /\ iterations' = iterations + 1
    /\ UNCHANGED <<pc, type_obj, named, auditVars, scanVars, engineVars,
                   schema_artifacts, response>>

\* `return name` and the final `return None`
NamedTypeReturn ==
    /\ pc = "named_type"
    /\ NamedTypeStep(type_obj, current).done
    /\ named' = NamedTypeStep(type_obj, current).result
    /\ iterations' = iterations + 1
    /\ pc' = "named_type_returned"
    /\ UNCHANGED <<type_obj, current, auditVars, scanVars, engineVars,
                   schema_artifacts, response>>

(***************************************************************************)
(* run_graphql_cop_audit                                                   *)
(*                                                                         *)
(* A probe is opaque: invoked with the target, its own copy of the merged  *)
(* headers and the verbose flag, it returns one Finding or raises.  The    *)
(* Finding of probe p is its title and, standing for the rest of the       *)
(* record, the probe that made it.                                         *)
(***************************************************************************)
NumProbes == 3

Probes == 1..NumProbes

\* str comparison in Python is by code point, so "B" < "a" < "ab" < "b".
TitleSet == {<<"B">>, <<"a">>, <<"a", "b">>, <<"b">>}

\* s < t for Python strings
RECURSIVE StrLess(_, _)
StrLess(s, t) ==
    IF t = Empty THEN FALSE
    ELSE IF s = Empty THEN TRUE
    ELSE IF CodePoint(Head(s)) # CodePoint(Head(t))
         THEN CodePoint(Head(s)) < CodePoint(Head(t))
         ELSE StrLess(Tail(s), Tail(t))

\* The Finding a probe returns: test(target, {}, dict(base_headers), False)
Finding(p) == [title |-> titleOf[p], probe |-> p]

\* graphql_cop_tests.values()
CatalogValuesButLast(catalog) == SubSeq(catalog, 1, Len(catalog) - 1)

CatalogValues(catalog) == catalog

\* key=lambda item: item["title"]
SortKeyIgnoresTitle(item) == Empty

SortKey(item) == item.title

\* sorted(): the element goes after every element whose key is not greater
\* (the sort is stable).
RECURSIVE InsertSorted(_, _)
InsertSorted(sorted, item) ==
    IF sorted = Empty THEN <<item>>
    ELSE IF StrLess(SortKey(item), SortKey(Head(sorted)))
         THEN <<item>> \o sorted
         ELSE <<Head(sorted)>> \o InsertSorted(Tail(sorted), item)

\* sorted(findings, key=lambda item: item["title"])
RECURSIVE SortedByTitle(_)
SortedByTitle(items) ==
    IF items = Empty THEN Empty
    ELSE InsertSorted(SortedByTitle(SubSeq(items, 1, Len(items) - 1)),
                      items[Len(items)])

\* The outcome of a call: nothing returned yet (or ever), or a value.
NotReturned == [returned |-> FALSE, value |-> Empty]

Returned(v) == [returned |-> TRUE, value |-> v]

AuditIdle ==
    /\ graphql_cop_tests = Empty
    /\ titleOf = Empty
    /\ failing = {}
    /\ idx = 1
    /\ findings = Empty
    /\ invoked = Empty
    /\ audit_findings = NotReturned
    /\ raised = FALSE

\* The catalog is fixed when the module is imported; a call starts with
\* findings = [] (and base_headers merged, which no probe of the model reads).
AuditStart ==
    /\ graphql_cop_tests \in Orders(Probes)
    /\ titleOf \in [Probes -> TitleSet]
    /\ failing \in SUBSET Probes
    /\ idx = 1
    /\ findings = Empty
    /\ invoked = [p \in Probes |-> 0]
    /\ audit_findings = NotReturned
    /\ raised = FALSE

\* One pass of the for loop whose probe returns its Finding.
AuditInvoke ==
    /\ pc = "audit"
    /\ idx <= Len(CatalogValues(graphql_cop_tests))
    /\ LET test == CatalogValues(graphql_cop_tests)[idx]
       IN  /\ test \notin failing
           /\ findings' = Append(findings, Finding(test))
           /\ invoked' = [invoked EXCEPT ![test] = @ + 1]
    /\ idx' = idx + 1
    /\ UNCHANGED <<pc, graphql_cop_tests, titleOf, failing, audit_findings, raised,
                   ntVars, scanVars, engineVars, schema_artifacts, response>>

\* One pass of the for loop whose probe raises: nothing catches it here, so
\* the call ends and its local `findings` is lost.
AuditProbeRaises ==
    /\ pc = "audit"
    /\ idx <= Len(CatalogValues(graphql_cop_tests))
    /\ LET test == CatalogValues(graphql_cop_tests)[idx]
       IN  /\ test \in failing
           /\ invoked' = [invoked EXCEPT ![test] = @ + 1]
    /\ findings' = Empty
    /\ raised' = TRUE
    /\ pc' = "audit_raised"
    /\ UNCHANGED <<graphql_cop_tests, titleOf, failing, idx, audit_findings,
                   ntVars, scanVars, engineVars, schema_artifacts, response>>

\* The loop is over: return sorted(findings, key=title)
AuditReturn ==
    /\ pc = "audit"
    /\ idx > Len(CatalogValues(graphql_cop_tests))
    /\ audit_findings' = Returned(SortedByTitle(findings))
    /\ pc' = "audit_returned"
    /\ UNCHANGED <<graphql_cop_tests, titleOf, failing, idx, findings, invoked, raised,
                   ntVars, scanVars, engineVars, schema_artifacts, response>>

(***************************************************************************)
(* detect_engine                                                           *)
(***************************************************************************)
\* The keys of `scored`, in the order the dict literal declares them.
EngineOrder ==
    <<"Apollo", "Hasura", "graphene-python", "PostGraphile", "Ariadne",
      "Hot Chocolate">>

ENGINE_SECURITY_NOTES ==
    [e \in Range(EngineOrder) \cup {"Unknown"} |->
        CASE e = "Apollo" ->
               <<"Disable introspection and GraphQL Playground in production.",
                 "Apply query depth and complexity limits to prevent DoS.",
                 "Avoid detailed stack traces and GraphQL error internals in responses.">>
          [] e = "Hasura" ->
               <<"Require strict admin secret/JWT validation and rotate credentials.",
                 "Harden row/column permission policies for every role.",
                 "Disable metadata/admin endpoints from public exposure.">>
          [] e = "graphene-python" ->
               <<"Disable debug middleware and tracing extensions in production.",
                 "Add rate limiting and query cost control to endpoint.",
                 "Disable GraphiQL on internet-facing deployments.">>
          [] e = "PostGraphile" ->
               <<"Constrain role privileges and schema exposure at DB level.",
                 "Use persisted queries / allow-lists for sensitive operations.",
                 "Disable detailed error hints leaking SQL metadata.">>
          [] e = "Ariadne" ->
               <<"Turn off debug mode and rich tracebacks in production.",
                 "Apply operation depth and complexity guards.",
                 "Restrict introspection where not needed.">>
          [] e = "Hot Chocolate" ->
               <<"Disable Banana Cake Pop / tooling endpoints on production.",
                 "Use cost analysis middleware and request timeout limits.",
                 "Harden authorization directives and resolver-level checks.">>
          [] e = "Unknown" ->
               <<"Apply strict authZ/authN controls on each resolver path.",
                 "Use query complexity, depth, and rate limiting protections.",
                 "Disable introspection/UI tooling for public production endpoints.">>]

S_apollo == <<"a", "p", "o", "l", "l", "o">>
S_hasura == <<"h", "a", "s", "u", "r", "a">>
S_graphene == <<"g", "r", "a", "p", "h", "e", "n", "e">>
S_postgraphile == <<"p", "o", "s", "t", "g", "r", "a", "p", "h", "i", "l", "e">>
S_ariadne == <<"a", "r", "i", "a", "d", "n", "e">>
S_hotchocolate == <<"h", "o", "t", "c", "h", "o", "c", "o", "l", "a", "t", "e">>
S_chilli == <<"c", "h", "i", "l", "l", "i">>
S_cachecontrol == <<"c", "a", "c", "h", "e", "c", "o", "n", "t", "r", "o", "l">>
S_cached == <<"c", "a", "c", "h", "e", "d">>
S_frontend == <<"f", "r", "o", "n", "t", "e", "n", "d">>
S_relay == <<"r", "e", "l", "a", "y">>
S_query_root == <<"q", "u", "e", "r", "y", "_", "r", "o", "o", "t">>
S_pageinfo == <<"p", "a", "g", "e", "i", "n", "f", "o">>

\* {k.lower(): str(v).lower() for k, v in response_headers.items()}: a key
\* met again keeps its place and takes the later value.
LowerHeadersKeepsCase(items) == items

RECURSIVE LowerHeaders(_)
LowerHeaders(items) ==
    IF items = Empty THEN Empty
    ELSE LET before == LowerHeaders(SubSeq(items, 1, Len(items) - 1))
             k == Lower(items[Len(items)][1])
             v == Lower(items[Len(items)][2])
         IN  IF \E i \in 1..Len(before) : before[i][1] = k
             THEN [i \in 1..Len(before) |->
                     IF before[i][1] = k THEN <<k, v>> ELSE before[i]]
             ELSE Append(before, <<k, v>>)

\* " ".join([f"{k}:{v}" for k, v in lower_headers.items()])
HeaderBlob(lower_headers) ==
    Join([i \in 1..Len(lower_headers) |->
            lower_headers[i][1] \o <<":">> \o lower_headers[i][2]], <<" ">>)

\* {d.get("name", "").lower() for d in schema.get("directives", [])}
DirectiveNames(schema) ==
    {Lower(Get(d, "name", Empty)) : d \in Range(Get(schema, "directives", Empty))}

\* {t.get("name", "") for t in schema.get("types", [])}
TypeNames(schema) ==
    {Get(t, "name", Empty) : t \in Range(Get(schema, "types", Empty))}

\* The score table after the header and schema signals; `order` is the
\* order in which the set type_names is iterated by " ".join.
Scored(schema_dict, headers, order) ==
    LET header_blob == HeaderBlob(LowerHeaders(headers))
        schema == Get(schema_dict, "__schema", Empty)
        directives == DirectiveNames(schema)
        type_names == TypeNames(schema)
        type_blob == Lower(Join(order, <<" ">>))
        Add(cond, n) == IF cond THEN n ELSE 0
    IN  [e \in Range(EngineOrder) |->
          CASE e = "Apollo" ->
                 Add(Contains(header_blob, S_apollo), 3)
                 + Add(S_cachecontrol \in directives, 2)
            [] e = "Hasura" ->
                 Add(Contains(header_blob, S_hasura), 3)
                 + Add({S_cached, S_frontend} \cap directives # {}, 2)
                 + Add(S_query_root \in {Lower(name) : name \in type_names}, 2)
            [] e = "graphene-python" ->
                 Add(Contains(header_blob, S_graphene), 3)
            [] e = "PostGraphile" ->
                 Add(Contains(header_blob, S_postgraphile), 3)
                 + Add(Contains(type_blob, S_relay), 1)
                 + Add(S_pageinfo \in type_names, 1)
            [] e = "Ariadne" ->
                 Add(Contains(header_blob, S_ariadne), 3)
            [] e = "Hot Chocolate" ->
                 Add(Contains(header_blob, S_hotchocolate)
                     \/ Contains(header_blob, S_chilli), 3)]

\* max(scored, key=lambda key: scored[key]): the first key, in the dict's
\* order, whose score no other key exceeds.
RECURSIVE MaxKeyLastWins(_, _)
MaxKeyLastWins(keys, scored) ==
    IF Len(keys) = 1 THEN keys[1]
    ELSE LET best == MaxKeyLastWins(SubSeq(keys, 1, Len(keys) - 1), scored)
             k == keys[Len(keys)]
         IN  IF scored[k] >= scored[best] THEN k ELSE best

RECURSIVE MaxKey(_, _)
MaxKey(keys, scored) ==
    IF Len(keys) = 1 THEN keys[1]
    ELSE LET best == MaxKey(SubSeq(keys, 1, Len(keys) - 1), scored)
             k == keys[Len(keys)]
         IN  IF scored[k] > scored[best] THEN k ELSE best

detect_engine(schema_dict, headers, order) ==
    LET scored == Scored(schema_dict, headers, order)
        best_engine == MaxKey(EngineOrder, scored)
        confidence == scored[best_engine]
        chosen == IF confidence = 0 THEN "Unknown" ELSE best_engine
    IN  [engine |-> chosen,
         confidence |-> confidence,
         security_notes |-> ENGINE_SECURITY_NOTES[chosen],
         signals |-> scored]

(***************************************************************************)
(* build_schema_artifacts                                                  *)
(***************************************************************************)
S_reserved == <<"_", "_">>
S_arrow == <<"-", ">">>
S_colon == <<":">>

\* t.get("kind") == "OBJECT" and not str(t.get("name", "")).startswith("__")
IsObjectTypeAnyName(t) == Get(t, "kind", "") = "OBJECT"

IsObjectType(t) ==
    /\ Get(t, "kind", "") = "OBJECT"
    /\ ~StartsWith(Get(t, "name", Empty), S_reserved)

\* object_types = [t for t in all_types if ...]
ObjectTypes(all_types) == SelectSeq(all_types, IsObjectType)

\* object_names = {t.get("name") for t in object_types if t.get("name")}
ObjectNames(object_types) ==
    {t.name : t \in {o \in Range(object_types) : Truthy(o.name)}}

\* The edges the inner loop appends for the fields of one object type.
RECURSIVE FieldEdgesNoSelfLoop(_, _, _)
FieldEdgesNoSelfLoop(source, fields, object_names) ==
    IF fields = Empty THEN Empty
    ELSE LET field == Head(fields)
             target_name == _extract_named_type(field.type)
             rest == FieldEdgesNoSelfLoop(source, Tail(fields), object_names)
         IN  IF Truthy(target_name) /\ target_name \in object_names
                /\ target_name # source
             THEN <<[id |-> source \o S_arrow \o target_name \o S_colon \o field.name,
                     source |-> source,
                     target |-> target_name,
                     label |-> field.name]>> \o rest
             ELSE rest

RECURSIVE FieldEdges(_, _, _)
FieldEdges(source, fields, object_names) ==
    IF fields = Empty THEN Empty
    ELSE LET field == Head(fields)
             target_name == _extract_named_type(field.type)
             rest == FieldEdges(source, Tail(fields), object_names)
         IN  IF Truthy(target_name) /\ target_name \in object_names
             THEN <<[id |-> source \o S_arrow \o target_name \o S_colon \o field.name,
                     source |-> source,
                     target |-> target_name,
                     label |-> field.name]>> \o rest
             ELSE rest

\* The outer loop: [nodes, edges] after the object types of the list.
RECURSIVE GraphOf(_, _)
GraphOf(object_types, object_names) ==
    IF object_types = Empty THEN [nodes |-> Empty, edges |-> Empty]
    ELSE LET obj == Head(object_types)
             source == obj.name
             rest == GraphOf(Tail(object_types), object_names)
         IN  IF ~Truthy(source) THEN rest
             ELSE [nodes |-> <<[id |-> source, label |-> source]>> \o rest.nodes,
                   edges |-> FieldEdges(source, obj.fields, object_names)
                             \o rest.edges]

\* One entry of object_summaries
Summary(t) ==
    [name |-> t.name,
     field_count |-> Len(t.fields),
     fields |-> [i \in 1..Len(t.fields) |-> t.fields[i].name]]

\* sorted(object_summaries, key=lambda item: item["name"])
RECURSIVE InsertByName(_, _)
InsertByName(sorted, item) ==
    IF sorted = Empty THEN <<item>>
    ELSE IF StrLess(item.name, Head(sorted).name)
         THEN <<item>> \o sorted
         ELSE <<Head(sorted)>> \o InsertByName(Tail(sorted), item)

RECURSIVE SortedByName(_)
SortedByName(items) ==
    IF items = Empty THEN Empty
    ELSE InsertByName(SortedByName(SubSeq(items, 1, Len(items) - 1)),
                      items[Len(items)])

build_schema_artifacts(schema_dict) ==
    LET schema == Get(schema_dict, "__schema", Empty)
        all_types == Get(schema, "types", Empty)
        object_types == ObjectTypes(all_types)
        object_names == ObjectNames(object_types)
        object_summaries == [i \in 1..Len(object_types) |-> Summary(object_types[i])]
    IN  [object_count |-> Len(object_summaries),
         objects |-> SortedByName(object_summaries),
         graph |-> GraphOf(object_types, object_names)]

(***************************************************************************)
(* Inputs of the classifier and of the builder                             *)
(***************************************************************************)
N_User == <<"U", "s", "e", "r">>
N_Post == <<"P", "o", "s", "t">>
N_Type == <<"_", "_", "T", "y", "p", "e">>
N_Meta == <<"_", "M", "e", "t", "a">>
N_PageInfo == <<"P", "a", "g", "e", "I", "n", "f", "o">>
N_Query_Root == <<"Q", "u", "e", "r", "y", "_", "R", "o", "o", "t">>
N_RelayNode == <<"R", "e", "l", "a", "y", "N", "o", "d", "e">>

\* TypeRef chains: a named type, and the LIST and NON_NULL wrappers.
Ref(name) == <<TypeRefElement(name)>>

ListOf(chain) == <<[kind |-> "LIST", name |-> None]>> \o chain

NonNull(chain) == <<[kind |-> "NON_NULL", name |-> None]>> \o chain

Field(name, type) == [name |-> name, type |-> type]

\* The field lists a type of the model may have.
FieldLists ==
    { Empty,
      <<Field(<<"p", "o", "s", "t", "s">>, ListOf(Ref(N_Post)))>>,
      <<Field(<<"s", "e", "l", "f">>, Ref(N_User)), Field(<<"f", "r", "i", "e", "n", "d">>, NonNull(Ref(N_User)))>>,
      <<Field(<<"m", "e", "t", "a">>, NonNull(ListOf(Ref(N_Type)))),
        Field(<<"j", "u", "n", "k">>, ListOf(NonNull(Empty))),
        Field(<<"a", "u", "t", "h", "o", "r">>, Ref(N_User)),
        Field(<<"p", "o", "s", "t", "s">>, NonNull(ListOf(NonNull(Ref(N_Post)))))>>,
      <<Field(<<"a">>, Ref(N_Post)), Field(<<"b">>, ListOf(Ref(N_Post))),
        Field(<<"m">>, Ref(N_Meta)), Field(<<"e">>, Ref(Empty))>> }

GraphTypeNames == {N_User, N_Post, N_Type, N_Meta, Empty}

MaxTypes == 3

\* The types a schema of the model may declare: object types with any of
\* the field lists, and interface types, whose fields the builder never reads.
GraphTypes ==
    [kind : {"OBJECT"}, name : GraphTypeNames, fields : FieldLists]
    \cup [kind : {"INTERFACE"}, name : GraphTypeNames,
          fields : {<<Field(<<"s", "e", "l", "f">>, Ref(N_User)),
                      Field(<<"f", "r", "i", "e", "n", "d">>, NonNull(Ref(N_User)))>>}]

\* Lists of at most MaxTypes types with different names, as introspection
\* returns them.
GraphTypeLists ==
    UNION {{ts \in [1..n -> GraphTypes] :
               \A i, j \in 1..n : i # j => ts[i].name # ts[j].name}
           : n \in 0..MaxTypes}

SchemaData(types, directives) ==
    "__schema" :> [types |-> types, directives |-> directives]

NamedType(name) == [kind |-> "OBJECT", name |-> name, fields |-> Empty]

Directive(name) == [name |-> name]

DirectiveLists ==
    { Empty,
      <<Directive(<<"c", "a", "c", "h", "e", "C", "o", "n", "t", "r", "o", "l">>)>>,
      <<Directive(<<"F", "r", "o", "n", "t", "e", "n", "d">>), Directive(<<"c", "a", "c", "h", "e", "d">>)>> }

EngineTypeLists ==
    { Empty,
      <<NamedType(N_PageInfo)>>,
      <<NamedType(S_pageinfo)>>,
      <<NamedType(N_Query_Root)>>,
      <<NamedType(N_User), NamedType(S_query_root)>>,
      <<NamedType(N_RelayNode), NamedType(N_PageInfo)>>,
      <<NamedType(N_RelayNode), NamedType(S_pageinfo)>> }

H_Server == <<"S", "e", "r", "v", "e", "r">>
H_Via == <<"V", "i", "a">>

HeaderValues ==
    { <<"n", "g", "i", "n", "x">>, <<"A", "p", "o", "l", "l", "o">>, <<"h", "a", "s", "u", "r">>, <<"H", "a", "s", "u", "r", "a">>, <<"g", "r", "a", "p", "h", "e", "n", "e">>,
      <<"P", "o", "s", "t", "G", "r", "a", "p", "h", "i", "l", "e">>, <<"a", "r", "i", "a", "d", "n", "e">>, <<"H", "o", "t", "C", "h", "o", "c", "o", "l", "a", "t", "e">>, <<"c", "h", "i", "l", "l", "i">> }

\* dict(response.headers): at most one item per header name, whatever its
\* letter case, in either order.
HeaderLists ==
    {Empty}
    \cup {<<<<k, v>>>> : k \in {H_Server, H_Via}, v \in HeaderValues}
    \cup {<<<<H_Server, v>>, <<H_Via, w>>>> : v, w \in HeaderValues}
    \cup {<<<<H_Via, v>>, <<H_Server, w>>>> : v, w \in HeaderValues}

(***************************************************************************)
(* The classifier and the builder applied to their inputs                  *)
(***************************************************************************)
EngineIdle ==
    /\ type_order = Empty
    /\ engine = NotReturned
    /\ injected_headers = Empty
    /\ engine_injected = NotReturned

ScanIdle ==
    /\ introspection_result = Empty
    /\ schema_data = Empty
    /\ response_headers = Empty

\* The literal in the letter cases it is injected in.
ApolloSpellings == {<<"a", "p", "o", "l", "l", "o">>, <<"A", "p", "O", "L", "l", "o">>}

\* The header list with `literal` put at position `at` of the value of item i.
Inject(headers, i, at, literal) ==
    [headers EXCEPT ![i] =
        <<headers[i][1],
          SubSeq(headers[i][2], 1, at) \o literal
          \o SubSeq(headers[i][2], at + 1, Len(headers[i][2]))>>]

\* engine = detect_engine(schema_data, response_headers)
DetectEngine ==
    /\ pc = "detect"
    /\ \E order \in Orders(TypeNames(Get(schema_data, "__schema", Empty))) :
          /\ type_order' = order
          /\ engine' = Returned(detect_engine(schema_data, response_headers, order))
    /\ pc' = "detected"
    /\ UNCHANGED <<ntVars, auditVars, scanVars, injected_headers,
                   engine_injected, schema_artifacts, response>>

\* detect_engine again, on the same input with the literal injected into
\* one header value.
DetectEngineInjected ==
    /\ pc = "detected"
    /\ \E i \in 1..Len(response_headers) :
          \E at \in {0, Len(response_headers[i][2]) \div 2, Len(response_headers[i][2])} :
             \E literal \in ApolloSpellings :
                /\ injected_headers' = Inject(response_headers, i, at, literal)
                /\ engine_injected' =
                      Returned(detect_engine(schema_data, injected_headers', type_order))
    /\ pc' = "injected"
    /\ UNCHANGED <<ntVars, auditVars, scanVars, type_order, engine,
                   schema_artifacts, response>>

\* schema_artifacts = build_schema_artifacts(schema_data)
BuildSchemaArtifacts ==
    /\ pc = "build"
    /\ schema_artifacts' = Returned(build_schema_artifacts(schema_data))
    /\ pc' = "built"
    /\ UNCHANGED <<ntVars, auditVars, scanVars, engineVars, response>>

(***************************************************************************)
(* analyze: POST /api/analyze                                              *)
(***************************************************************************)
NoResponse == [status |-> 0, body |-> Empty]

Targets == {Empty, <<" ">>, <<"h">>, <<" ", "h", " ">>}

\* str.strip(), for strings padded with blanks
RECURSIVE Strip(_)
Strip(str) ==
    IF str = Empty THEN Empty
    ELSE IF Head(str) = " " THEN Strip(Tail(str))
    ELSE IF str[Len(str)] = " " THEN Strip(SubSeq(str, 1, Len(str) - 1))
    ELSE str

\* The `headers` strings of the model and what json.loads makes of them.
RawHeaders == {"", "{\"Authorization\": \"Bearer t\"}", "[1]", "{"}

JsonLoads(raw) ==
    CASE raw = "{\"Authorization\": \"Bearer t\"}" -> [ok |-> TRUE, isdict |-> TRUE]
      [] raw = "[1]" -> [ok |-> TRUE, isdict |-> FALSE]
      [] OTHER -> [ok |-> FALSE, isdict |-> FALSE]

\* parse_headers: whether it returns (a dict) rather than raises.
parse_headers_returns(raw_headers) ==
    \/ raw_headers = ""
    \/ JsonLoads(raw_headers).ok /\ JsonLoads(raw_headers).isdict

\* The bodies execute_graphql may return for the introspection query.
IntrospectionBodies ==
    { "errors" :> <<"introspection is disabled">>,
      "data" :> Empty,
      ("errors" :> Empty) @@ ("data" :> Empty),
      "data" :> SchemaData(Empty, Empty),
      "data" :> SchemaData(
          <<[kind |-> "OBJECT", name |-> N_User,
             fields |-> <<Field(<<"p", "o", "s", "t", "s">>, ListOf(Ref(N_Post)))>>],
            [kind |-> "OBJECT", name |-> N_Post, fields |-> Empty],
            [kind |-> "SCALAR", name |-> <<"I", "n", "t">>, fields |-> Empty]>>,
          <<Directive(<<"s", "k", "i", "p">>)>>) }

ScanHeaderLists ==
    {Empty, <<<<<<"X", "-", "P", "o", "w", "e", "r", "e", "d", "-", "B", "y">>, <<"H", "a", "s", "u", "r", "a", " ", "G", "r", "a", "p", "h", "Q", "L", " ", "E", "n", "g", "i", "n", "e">>>>>>}

\* jsonify({"error": message}), status
ErrorResponse(status, message) == [status |-> status, body |-> "error" :> message]

\* except Exception as exc: the answer to a failed audit
AuditFailedResponseKeepsEngine(data, headers) ==
    [status |-> 500,
     body |-> ("error" :> "GraphQL Cop audit failed")
              @@ ("engine" :> detect_engine(data, headers, Empty))]

AuditFailedResponse(data, headers) ==
    ErrorResponse(500, "GraphQL Cop audit failed")

\* if not target: return 400
AnalyzeRejectsTarget ==
    /\ pc = "analyze"
    /\ \E target \in Targets : Strip(target) = Empty
    /\ response' = ErrorResponse(400, "target is required")
    /\ pc' = "responded"
    /\ UNCHANGED <<ntVars, auditVars, scanVars, engineVars, schema_artifacts>>

\* parse_headers raises: return 400
AnalyzeRejectsHeaders ==
    /\ pc = "analyze"
    /\ \E target \in Targets : Strip(target) # Empty
    /\ \E raw \in RawHeaders : ~parse_headers_returns(raw)
    /\ response' = ErrorResponse(400, "invalid headers JSON")
    /\ pc' = "responded"
    /\ UNCHANGED <<ntVars, auditVars, scanVars, engineVars, schema_artifacts>>

\* execute_graphql raises requests.RequestException or ValueError: return 500
AnalyzeIntrospectionFails ==
    /\ pc = "analyze"
    /\ \E target \in Targets : Strip(target) # Empty
    /\ \E raw \in RawHeaders : parse_headers_returns(raw)
    /\ \E message \in {"Failed to introspect endpoint",
                       "Endpoint did not return valid JSON"} :
          response' = ErrorResponse(500, message)
    /\ pc' = "responded"
    /\ UNCHANGED <<ntVars, auditVars, scanVars, engineVars, schema_artifacts>>

\* execute_graphql returns a body with a non-empty `errors`: return 500
AnalyzeIntrospectionUnavailable ==
    /\ pc = "analyze"
    /\ \E target \in Targets : Strip(target) # Empty
    /\ \E raw \in RawHeaders : parse_headers_returns(raw)
    /\ \E body \in IntrospectionBodies, headers \in ScanHeaderLists :
          /\ Truthy(Get(body, "errors", None))
          /\ introspection_result' = body
          /\ response_headers' = headers
          /\ response' = [status |-> 500,
                          body |-> ("error" :> "Introspection is unavailable")
                                   @@ ("details" :> Get(body, "errors", None))]
    /\ pc' = "responded"
    /\ UNCHANGED <<ntVars, auditVars, schema_data, engineVars, schema_artifacts>>

\* execute_graphql returns a body without errors:
\* schema_data = introspection_result.get("data") or {}, then the audit is called
AnalyzeCallsAudit ==
    /\ pc = "analyze"
    /\ \E target \in Targets : Strip(target) # Empty
    /\ \E raw \in RawHeaders : parse_headers_returns(raw)
    /\ \E body \in IntrospectionBodies, headers \in ScanHeaderLists :
          /\ ~Truthy(Get(body, "errors", None))
          /\ introspection_result' = body
          /\ response_headers' = headers
          /\ schema_data' = Get(body, "data", Empty)
    /\ pc' = "audit"
    /\ UNCHANGED <<ntVars, auditVars, engineVars, schema_artifacts, response>>

\* run_graphql_cop_audit raised: return 500
AnalyzeAuditFailed ==
    /\ pc = "audit_raised"
    /\ response' = AuditFailedResponse(schema_data, response_headers)
    /\ pc' = "responded"
    /\ UNCHANGED <<ntVars, auditVars, scanVars, engineVars, schema_artifacts>>

\* run_graphql_cop_audit returned: detect_engine, build_schema_artifacts and
\* the answer with the four results
AnalyzeResponds ==
    /\ pc = "audit_returned"
    /\ \E order \in Orders(TypeNames(Get(schema_data, "__schema", Empty))) :
          /\ type_order' = order
          /\ engine' = Returned(detect_engine(schema_data, response_headers, order))
    /\ schema_artifacts' = Returned(build_schema_artifacts(schema_data))
    /\ response' = [status |-> 200,
                    body |-> ("engine" :> engine'.value)
                             @@ ("audit" :> audit_findings.value)
                             @@ ("schema" :> schema_artifacts'.value)
                             @@ ("introspection" :> schema_data)]
    /\ pc' = "responded"
    /\ UNCHANGED <<ntVars, auditVars, scanVars, injected_headers, engine_injected>>

(***************************************************************************)
(* Specifications                                                          *)
(***************************************************************************)
\* _extract_named_type called on every chain of the bound
InitNamedType ==
    /\ pc = "named_type"
    /\ type_obj \in TypeRefChains
    /\ current = 1
    /\ named = None
    /\ iterations = 0
    /\ AuditIdle /\ ScanIdle /\ EngineIdle
    /\ schema_artifacts = NotReturned
    /\ response = NoResponse

NextNamedType == NamedTypeIterate \/ NamedTypeReturn

SpecNamedType == InitNamedType /\ [][NextNamedType]_vars

\* run_graphql_cop_audit called with every catalog of the bound
InitAudit ==
    /\ pc = "audit"
    /\ AuditStart
    /\ NamedTypeIdle /\ ScanIdle /\ EngineIdle
    /\ schema_artifacts = NotReturned
    /\ response = NoResponse

NextAudit == AuditInvoke \/ AuditProbeRaises \/ AuditReturn

SpecAudit == InitAudit /\ [][NextAudit]_vars

\* detect_engine called on every input of the model
InitEngine ==
    /\ pc = "detect"
    /\ schema_data \in {SchemaData(ts, ds) : ts \in EngineTypeLists, ds \in DirectiveLists}
    /\ response_headers \in HeaderLists
    /\ introspection_result = Empty
    /\ NamedTypeIdle /\ AuditIdle /\ EngineIdle
    /\ schema_artifacts = NotReturned
    /\ response = NoResponse

NextEngine == DetectEngine \/ DetectEngineInjected

SpecEngine == InitEngine /\ [][NextEngine]_vars

\* build_schema_artifacts called on every schema of the bound
InitGraph ==
    /\ pc = "build"
    /\ schema_data \in {SchemaData(ts, Empty) : ts \in GraphTypeLists}
    /\ response_headers = Empty
    /\ introspection_result = Empty
    /\ NamedTypeIdle /\ AuditIdle /\ EngineIdle
    /\ schema_artifacts = NotReturned
    /\ response = NoResponse

NextGraph == BuildSchemaArtifacts

SpecGraph == InitGraph /\ [][NextGraph]_vars

\* One request to /api/analyze.  The probes of a scan have different titles.
ScanTitles == <<<<"B">>, <<"a">>, <<"a", "b">>, <<"b">>>>

InitAnalyze ==
    /\ pc = "analyze"
    /\ graphql_cop_tests \in Orders(Probes)
    /\ titleOf = [p \in Probes |-> ScanTitles[((p - 1) % Len(ScanTitles)) + 1]]
    /\ failing \in SUBSET Probes
    /\ idx = 1
    /\ findings = Empty
    /\ invoked = [p \in Probes |-> 0]
    /\ audit_findings = NotReturned
    /\ raised = FALSE
    /\ NamedTypeIdle /\ ScanIdle /\ EngineIdle
    /\ schema_artifacts = NotReturned
    /\ response = NoResponse

NextAnalyze ==
    \/ AnalyzeRejectsTarget
    \/ AnalyzeRejectsHeaders
    \/ AnalyzeIntrospectionFails
    \/ AnalyzeIntrospectionUnavailable
    \/ AnalyzeCallsAudit
    \/ AuditInvoke
    \/ AuditProbeRaises
    \/ AuditReturn
    \/ AnalyzeAuditFailed
    \/ AnalyzeResponds

SpecAnalyze == InitAnalyze /\ [][NextAnalyze]_vars

Init == InitAnalyze

Next == NextAnalyze

Spec == SpecAnalyze

(***************************************************************************)
(* Properties                                                              *)
(***************************************************************************)
\* The first non-empty name of a chain, said without walking it.
FirstNamed(chain) ==
    IF \E i \in 1..Len(chain) : Truthy(chain[i].name)
    THEN chain[CHOOSE i \in 1..Len(chain) :
                  /\ Truthy(chain[i].name)
                  /\ \A j \in 1..(i - 1) : ~Truthy(chain[j].name)].name
    ELSE None

\* C5: for every TypeRef chain of 0 to MaxDepth wrappers, _extract_named_type
\* returns the first non-empty name met along the ofType links, which is the
\* terminal name when the chain ends in a named type under nameless
\* wrappers; it returns None for a chain without a name and for an absent
\* TypeRef; and it ends after at most one loop test per element plus one.
C5_NamedTypeResolved ==
    /\ iterations <= Len(type_obj) + 1
    /\ pc = "named_type" => ENABLED (NamedTypeIterate \/ NamedTypeReturn)
    /\ pc \in {"named_type", "named_type_returned"}
    /\ pc = "named_type_returned" =>
          /\ named = FirstNamed(type_obj)
          /\ (\A i \in 1..Len(type_obj) : ~Truthy(type_obj[i].name)) => named = None
          /\ ( /\ Len(type_obj) > 0
               /\ Truthy(type_obj[Len(type_obj)].name)
               /\ \A i \in 1..(Len(type_obj) - 1) : ~Truthy(type_obj[i].name) )
             => named = type_obj[Len(type_obj)].name

\* A chain of MaxDepth nameless wrappers, one of them with an empty name,
\* around a named type has been resolved to that name.
C5_Witness ==
    /\ pc = "named_type_returned"
    /\ Len(type_obj) = MaxDepth + 1
    /\ \A i \in 1..MaxDepth : ~Truthy(type_obj[i].name)
    /\ type_obj[2].name = Empty
    /\ type_obj[MaxDepth + 1].name = <<"P">>
    /\ named = <<"P">>

TitlesUnique == \A p, q \in Probes : p # q => titleOf[p] # titleOf[q]

\* The place of probe p's Finding in the title order, whatever the catalog order.
TitleRank(p) == 1 + Cardinality({q \in Probes : StrLess(titleOf[q], titleOf[p])})

\* C2: when no probe fails and titles are unique, the returned findings are
\* in ascending title order and are the list that the titles alone
\* determine, whatever the iteration order of the catalog.
C2_SortedForEveryCatalogOrder ==
    (pc = "audit_returned" /\ TitlesUnique /\ failing = {}) =>
        LET report == audit_findings.value
        IN  /\ Len(report) = NumProbes
            /\ \A i \in 1..(Len(report) - 1) :
                  StrLess(report[i].title, report[i + 1].title)
            /\ \A p \in Probes : report[TitleRank(p)] = Finding(p)

\* An audit has returned whose catalog was not in title order.
C2_Witness ==
    /\ pc = "audit_returned"
    /\ TitlesUnique
    /\ StrLess(titleOf[graphql_cop_tests[2]], titleOf[graphql_cop_tests[1]])
    /\ audit_findings.value[1].probe # graphql_cop_tests[1]
    /\ audit_findings.value[1].title = <<"B">>

\* C3: no catalog entry is invoked twice; while the loop runs the entries
\* before its position have been invoked once and the others not yet; and
\* when the call returns every entry has been invoked exactly once and the
\* report holds exactly one Finding per entry, the one that entry returned.
C3_EachProbeOnce ==
    /\ \A p \in Probes : invoked[p] <= 1
    /\ pc = "audit" =>
          \A j \in 1..NumProbes :
             invoked[graphql_cop_tests[j]] = (IF j < idx THEN 1 ELSE 0)
    /\ pc = "audit_returned" =>
          LET report == audit_findings.value
          IN  /\ \A p \in Probes : invoked[p] = 1
              /\ Len(report) = NumProbes
              /\ \A p \in Probes :
                    Cardinality({i \in 1..Len(report) : report[i] = Finding(p)}) = 1

\* An audit has returned in which two probes gave findings of the same title.
C3_Witness ==
    /\ pc = "audit_returned"
    /\ ~TitlesUnique
    /\ \A p \in Probes : invoked[p] = 1
    /\ Len(audit_findings.value) = NumProbes

\* C4: once a probe has raised, run_graphql_cop_audit returns no findings
\* (those collected so far are gone), and the scan answers with status 500
\* and an object that has the `error` key only: no engine, audit or schema
\* result is computed or sent.
C4_ProbeFailureFailsScan ==
    raised =>
        /\ ~audit_findings.returned
        /\ findings = Empty
        /\ pc \in {"audit_raised", "responded"}
        /\ pc = "responded" =>
              /\ response.status = 500
              /\ DOMAIN response.body = {"error"}
              /\ ~engine.returned
              /\ ~schema_artifacts.returned

\* A scan of an endpoint with a schema has been answered after its second
\* or later probe raised.
C4_Witness ==
    /\ raised
    /\ pc = "responded"
    /\ "__schema" \in DOMAIN schema_data
    /\ \E p \in Probes : invoked[p] = 1 /\ p \notin failing
    /\ response.status = 500

\* C1: a scan whose introspection body has data without a `__schema` key
\* is answered with an error, and no engine record, schema or graph is
\* produced for it.
C1_AbsentSchemaIsHardFailure ==
    ( /\ pc = "responded"
      /\ "data" \in DOMAIN introspection_result
      /\ "__schema" \notin DOMAIN introspection_result["data"] )
    => /\ ~engine.returned
       /\ ~schema_artifacts.returned
       /\ "error" \in DOMAIN response.body
       /\ DOMAIN response.body \cap {"engine", "schema"} = {}

\* The types of the schema given to the builder.
AllTypes == Get(Get(schema_data, "__schema", Empty), "types", Empty)

\* A type the filtering rule leaves out.
Excluded(t) == t.kind # "OBJECT" \/ StartsWith(t.name, S_reserved)

\* A type that is a graph node: an object type that is not reserved and has a name.
IsNode(t) == ~Excluded(t) /\ t.name # Empty

NodeNames == {t.name : t \in {u \in Range(AllTypes) : IsNode(u)}}

\* C6: no type whose name starts with `__` and no type whose kind is not
\* OBJECT is a graph node, the source or target of an edge, or an entry of
\* the object summaries, even when fields of included types refer to it.
C6_ExcludedTypesNeverAppear ==
    pc = "built" =>
        LET out == schema_artifacts.value
            nodes == out.graph.nodes
            edges == out.graph.edges
        IN  /\ \A t \in Range(AllTypes) :
                  Excluded(t) =>
                     /\ \A i \in 1..Len(nodes) : nodes[i].id # t.name
                     /\ \A i \in 1..Len(edges) :
                           edges[i].source # t.name /\ edges[i].target # t.name
                     /\ \A i \in 1..Len(out.objects) : out.objects[i].name # t.name
            /\ \A i \in 1..Len(nodes) : ~StartsWith(nodes[i].id, S_reserved)
            /\ \A i \in 1..Len(edges) :
                  /\ ~StartsWith(edges[i].source, S_reserved)
                  /\ ~StartsWith(edges[i].target, S_reserved)
            /\ \A i \in 1..Len(out.objects) :
                  ~StartsWith(out.objects[i].name, S_reserved)
            /\ out.object_count = Len(out.objects)

\* The graph has been built for a schema in which an object type that is a
\* node has fields referring to the reserved type and to a type that is
\* not an object type, both declared in the schema.
C6_Witness ==
    /\ pc = "built"
    /\ \E i, j, k \in 1..Len(AllTypes) :
          /\ AllTypes[i].kind = "OBJECT" /\ AllTypes[i].name = N_Meta
          /\ \E f \in 1..Len(AllTypes[i].fields) :
                _extract_named_type(AllTypes[i].fields[f].type) = N_Type
          /\ \E f \in 1..Len(AllTypes[i].fields) :
                _extract_named_type(AllTypes[i].fields[f].type) = N_Post
          /\ AllTypes[j].kind = "OBJECT" /\ AllTypes[j].name = N_Type
          /\ AllTypes[k].kind = "INTERFACE" /\ AllTypes[k].name = N_Post
    /\ Len(schema_artifacts.value.graph.nodes) = 1
    /\ schema_artifacts.value.graph.edges = Empty

\* The fields that must give an edge, as (type index, field index).
EdgeFields ==
    {q \in UNION {{<<i, j>> : j \in 1..Len(AllTypes[i].fields)} : i \in 1..Len(AllTypes)} :
        /\ IsNode(AllTypes[q[1]])
        /\ FirstNamed(AllTypes[q[1]].fields[q[2]].type) \in NodeNames}

\* The place of a field's edge: schema order is type order, then field order.
EdgeRank(q) ==
    Cardinality({r \in EdgeFields : r[1] < q[1] \/ (r[1] = q[1] /\ r[2] <= q[2])})

UserPostExample ==
    <<[kind |-> "OBJECT", name |-> N_User,
       fields |-> <<Field(<<"p", "o", "s", "t", "s">>, ListOf(Ref(N_Post)))>>],
      [kind |-> "OBJECT", name |-> N_Post, fields |-> Empty]>>

\* C7: the edge list has exactly one edge (source, target, field name) per
\* field of a node whose named type is a node, in schema order, and nothing
\* else: self-loops and parallel edges are kept, unresolvable references and
\* references to types that are not nodes give no edge.  For User with
\* `posts: [Post]` and Post it is the single edge User -> Post, `posts`.
C7_OneEdgePerObjectField ==
    pc = "built" =>
        LET edges == schema_artifacts.value.graph.edges
        IN  /\ Len(edges) = Cardinality(EdgeFields)
            /\ \A q \in EdgeFields :
                  LET t == AllTypes[q[1]]
                      f == t.fields[q[2]]
                      e == edges[EdgeRank(q)]
                  IN  /\ e.source = t.name
                      /\ e.target = FirstNamed(f.type)
                      /\ e.label = f.name
                      /\ e.id = t.name \o S_arrow \o FirstNamed(f.type) \o S_colon \o f.name
            /\ AllTypes = UserPostExample =>
                  edges = <<[id |-> <<"U", "s", "e", "r", "-", ">", "P", "o", "s", "t", ":", "p", "o", "s", "t", "s">>, source |-> N_User,
                             target |-> N_Post, label |-> <<"p", "o", "s", "t", "s">>]>>

\* The graph has been built for a schema of two object types where one has a
\* self-loop and a second edge to itself, and the other several edges to it.
C7_Witness ==
    /\ pc = "built"
    /\ Len(AllTypes) = 2
    /\ \E i \in 1..Len(schema_artifacts.value.graph.edges) :
          LET e == schema_artifacts.value.graph.edges[i]
          IN  e.source = N_User /\ e.target = N_User /\ e.label = <<"f", "r", "i", "e", "n", "d">>
    /\ \E i \in 1..(Len(schema_artifacts.value.graph.edges) - 1) :
          LET e == schema_artifacts.value.graph.edges[i]
              g == schema_artifacts.value.graph.edges[i + 1]
          IN  /\ e.source = N_Post /\ e.target = N_User
              /\ g.source = N_Post /\ g.target = N_Post
    /\ Len(schema_artifacts.value.graph.edges) = 4

\* reversed(list)
Reversed(list) == [i \in 1..Len(list) |-> list[Len(list) + 1 - i]]

\* The largest score of a table.
MaxScore(signals) ==
    CHOOSE m \in {signals[e] : e \in DOMAIN signals} :
        \A e \in DOMAIN signals : signals[e] <= m

\* The first engine, in declaration order, that has the largest score.
FirstOfBest(signals) ==
    EngineOrder[CHOOSE i \in 1..Len(EngineOrder) :
                   /\ signals[EngineOrder[i]] = MaxScore(signals)
                   /\ \A j \in 1..(i - 1) : signals[EngineOrder[j]] < MaxScore(signals)]

\* C8: the selected engine is the first in declaration order among those
\* with the maximal score, or "Unknown" when that score is 0; the
\* confidence is the maximal score; the notes are the selected engine's;
\* and the same engine and table come out when the headers, the directives
\* and the types are given in the opposite order, however the set of type
\* names is iterated.
C8_FirstDeclaredOfBestWins ==
    engine.returned =>
        LET r == engine.value
            schema == Get(schema_data, "__schema", Empty)
        IN  /\ r.confidence = MaxScore(r.signals)
            /\ r.confidence = 0 => r.engine = "Unknown"
            /\ r.confidence > 0 => r.engine = FirstOfBest(r.signals)
            /\ r.security_notes = ENGINE_SECURITY_NOTES[r.engine]
            /\ \A e \in DOMAIN r.signals : r.signals[e] >= 0
            /\ pc = "detected" =>
                  \A order \in Orders(TypeNames(schema)) :
                     detect_engine(
                         SchemaData(Reversed(schema.types), Reversed(schema.directives)),
                         Reversed(response_headers), order) = r

\* Hasura and PostGraphile tie with the largest score, ahead of Apollo, and
\* Hasura has been selected.
C8_Witness ==
    /\ pc = "detected"
    /\ engine.value.signals["Hasura"] = 3
    /\ engine.value.signals["PostGraphile"] = 3
    /\ engine.value.signals["Apollo"] = 2
    /\ engine.value.engine = "Hasura"

\* Whether the literal is in the lowercased name or value of some header.
InSomeHeader(headers, literal) ==
    \E i \in 1..Len(headers) :
        Contains(Lower(headers[i][1]), literal) \/ Contains(Lower(headers[i][2]), literal)

\* Whether the header signal of an engine other than Apollo fires.
HeaderSignal(headers, e) ==
    CASE e = "Hasura" -> InSomeHeader(headers, S_hasura)
      [] e = "graphene-python" -> InSomeHeader(headers, S_graphene)
      [] e = "PostGraphile" -> InSomeHeader(headers, S_postgraphile)
      [] e = "Ariadne" -> InSomeHeader(headers, S_ariadne)
      [] e = "Hot Chocolate" ->
           InSomeHeader(headers, S_hotchocolate) \/ InSomeHeader(headers, S_chilli)

OtherEngines == Range(EngineOrder) \ {"Apollo"}

\* C9 as stated: the injection always raises the Apollo score by 3, changes
\* no other score, and selects Apollo unless another score is greater.
C9_InjectionAlwaysAddsThree ==
    pc = "injected" =>
        LET before == engine.value.signals
            after == engine_injected.value.signals
        IN  /\ after["Apollo"] = before["Apollo"] + 3
            /\ \A e \in OtherEngines : after[e] = before[e]
            /\ (\A e \in OtherEngines : after[e] <= after["Apollo"])
                  => engine_injected.value.engine = "Apollo"

\* C9, amended: the injection raises the Apollo score by 3 when no header
\* name or value contained the literal before, and leaves it as it was
\* otherwise; the score of another engine changes only when the insertion
\* completes or splits that engine's own header literal; and Apollo is
\* selected whenever no other score is greater than Apollo's.
C9_InjectionAddsThreeOnce ==
    pc = "injected" =>
        LET before == engine.value.signals
            after == engine_injected.value.signals
        IN  /\ ~InSomeHeader(response_headers, S_apollo)
                  => after["Apollo"] = before["Apollo"] + 3
            /\ InSomeHeader(response_headers, S_apollo)
                  => after["Apollo"] = before["Apollo"]
            /\ InSomeHeader(injected_headers, S_apollo)
            /\ \A e \in OtherEngines :
                  (HeaderSignal(injected_headers, e) <=> HeaderSignal(response_headers, e))
                     => after[e] = before[e]
            /\ (\A e \in OtherEngines : after[e] <= after["Apollo"])
                  => engine_injected.value.engine = "Apollo"

\* The literal, in mixed case, has been put into a header of a response
\* that had no Apollo signal at all and whose engine was Hasura with 3; the
\* Apollo score is now 3, which ties with Hasura and selects Apollo.
C9_Witness ==
    /\ pc = "injected"
    /\ ~InSomeHeader(response_headers, S_apollo)
    /\ InSomeHeader(response_headers, S_hasura)
    /\ \E i \in 1..Len(injected_headers) : Contains(injected_headers[i][2], <<"A", "p", "O", "L", "l", "o">>)
    /\ engine.value.engine = "Hasura"
    /\ engine.value.signals["Apollo"] = 0
    /\ engine_injected.value.signals["Apollo"] = 3
    /\ engine_injected.value.signals["Hasura"] = 3
    /\ engine_injected.value.engine = "Apollo"

\* The names of the declared types and directives.
DeclaredTypeNames ==
    {t.name : t \in Range(Get(schema_data, "__schema", Empty).types)}

DeclaredDirectiveNames ==
    {d.name : d \in Range(Get(schema_data, "__schema", Empty).directives)}

Bonus(cond, n) == IF cond THEN n ELSE 0

\* C10: the schema signals are matched on lowercased names: a type whose
\* lowercased name is `pageinfo` gives PostGraphile +1, a type name
\* containing `relay` in any case gives PostGraphile +1, a type whose
\* lowercased name is `query_root` gives Hasura +2 and a directive whose
\* lowercased name is `cachecontrol` gives Apollo +2, whatever the letter
\* case of the name in the schema.
C10_SchemaSignalsIgnoreCase ==
    pc = "detected" =>
        LET signals == engine.value.signals
        IN  /\ signals["PostGraphile"] =
                  Bonus(InSomeHeader(response_headers, S_postgraphile), 3)
                  + Bonus(\E n \in DeclaredTypeNames : Contains(Lower(n), S_relay), 1)
                  + Bonus(\E n \in DeclaredTypeNames : Lower(n) = S_pageinfo, 1)
            /\ signals["Hasura"] =
                  Bonus(InSomeHeader(response_headers, S_hasura), 3)
                  + Bonus(\E d \in DeclaredDirectiveNames :
                             Lower(d) \in {S_cached, S_frontend}, 2)
                  + Bonus(\E n \in DeclaredTypeNames : Lower(n) = S_query_root, 2)
            /\ signals["Apollo"] =
                  Bonus(InSomeHeader(response_headers, S_apollo), 3)
                  + Bonus(\E d \in DeclaredDirectiveNames : Lower(d) = S_cachecontrol, 2)

=============================================================================
